---- MODULE Spec2Model ----
(***************************************************************************)
(* Model of tools/web_scraper.py: the concurrent URL fetcher (fetch_url,   *)
(* scrape_urls) and the content extractor (extract_main_content).          *)
(*                                                                         *)
(* One scrape_urls call is a state machine: the call creates the connector *)
(* and schedules one fetch_url task per URL, the tasks interleave at their *)
(* await points (connection acquisition, response headers, body read), the *)
(* gather collects their records by input position, the for loop extracts  *)
(* the successful ones in order, and the session context closes the pool.  *)
(***************************************************************************)
EXTENDS Integers, Sequences, FiniteSets, TLC

VARIABLES pc, urls, max_concurrent, connector, task, status, results, k,
          outcome, bodyRead, attempts, extractCalls, outOfOrder, gathered,
          parsed, region

vars == << pc, urls, max_concurrent, connector, task, status, results, k,
           outcome, bodyRead, attempts, extractCalls, outOfOrder, gathered,
           parsed, region >>

\* The state of one extract_main_content run that is followed step by step.
extractorVars == << parsed, region >>

(***************************************************************************)
(* Bounds of the model.                                                    *)
(***************************************************************************)
MaxUrls == 3
MaxCap == 2
\* How many nodes of one kind a generated document has.
MaxCopies == 2
\* The longest URL list of the batches whose progress is followed.
MaxFairUrls == 3

(***************************************************************************)
(* Program constants.                                                      *)
(***************************************************************************)
OK == 200
\* Python's None; no response body is this text.
None == "None"

(***************************************************************************)
(* Inputs.                                                                 *)
(***************************************************************************)
Urls == {"http://a", "not a url"}
Malformed(url) == url = "not a url"
Caps == -1 .. MaxCap
Statuses == {200, 404}

RECURSIVE SeqsUpTo(_, _)
SeqsUpTo(S, n) ==
    IF n = 0 THEN { << >> }
    ELSE LET shorter == SeqsUpTo(S, n - 1)
         IN  shorter \cup { Append(s, x) : s \in { t \in shorter : Len(t) = n - 1 }, x \in S }

UrlLists == SeqsUpTo(Urls, MaxUrls)

(***************************************************************************)
(* HTML documents.  A response body is an HTML text; BeautifulSoup parses  *)
(* it into a tree, modelled as the sequence of its element nodes in        *)
(* document order: parent is the index of the enclosing element, 0 for the *)
(* root of the parsed tree, and text is the node's own text as a sequence  *)
(* of tokens, " " being whitespace.                                        *)
(***************************************************************************)
Node(tag, id, cls, role, parent, text) ==
    [tag |-> tag, id |-> id, cls |-> cls, role |-> role, parent |-> parent, text |-> text]

HtmlArticle == "<html><body><nav><li>menu</li></nav><div id=content><p>side</p></div><article><h1> title</h1><p>para </p></article></body></html>"
HtmlBody == "<html><body><p>one</p><script>code</script><li>two</li></body></html>"
\* A marked section with an unknown keyword, which html.parser rejects.
HtmlRejected == "<![unknown[ text ]]>"

Bodies == { HtmlArticle, HtmlBody, HtmlRejected }

\* BeautifulSoup(html_content, 'html.parser') raises instead of returning a
\* tree: ParserRejectedMarkup on markup the parser rejects, TypeError on None.
ParserRaises(html_content) == html_content \in { HtmlRejected, None }

BeautifulSoup(html_content) ==
    CASE html_content = HtmlArticle ->
           << Node("html", "", "", "", 0, << >>),
              Node("body", "", "", "", 1, << >>),
              Node("nav", "", "", "", 2, << >>),
              Node("li", "", "", "", 3, << "menu" >>),
              Node("div", "content", "", "", 2, << >>),
              Node("p", "", "", "", 5, << "side" >>),
              Node("article", "", "", "", 2, << >>),
              Node("h1", "", "", "", 7, << " ", "title" >>),
              Node("p", "", "", "", 7, << "para", " " >>) >>
      [] html_content = HtmlBody ->
           << Node("html", "", "", "", 0, << >>),
              Node("body", "", "", "", 1, << >>),
              Node("p", "", "", "", 2, << "one" >>),
              Node("script", "", "", "", 2, << "code" >>),
              Node("li", "", "", "", 2, << "two" >>) >>

(***************************************************************************)
(* extract_main_content.                                                   *)
(***************************************************************************)
NonContentTags == {"script", "style", "nav", "footer", "iframe"}

\* A probe list that looks for article before main.
ContainersArticleFirst == << "article", "main", "[role=\"main\"]", "#content", ".content", "#main", ".main" >>

Containers == << "main", "article", "[role=\"main\"]", "#content", ".content", "#main", ".main" >>
TextTags == {"p", "h1", "h2", "h3", "h4", "h5", "h6", "li"}
Whitespace == {" ", "\n\n"}
Sentinel == << "Error extracting content" >>

\* n is a proper descendant of a; every node is a descendant of the root 0.
RECURSIVE Under(_, _, _)
Under(doc, n, a) ==
    LET p == doc[n].parent
    IN  IF p = a THEN TRUE
        ELSE IF p = 0 THEN FALSE
        ELSE Under(doc, p, a)

\* The nodes left after decomposing every non-content element with its subtree.
Decompose(doc) ==
    { n \in 1 .. Len(doc) :
        /\ doc[n].tag \notin NonContentTags
        /\ \A a \in 1 .. Len(doc) : Under(doc, n, a) => doc[a].tag \notin NonContentTags }

Matches(node, selector) ==
    CASE selector = "main" -> node.tag = "main"
      [] selector = "article" -> node.tag = "article"
      [] selector = "[role=\"main\"]" -> node.role = "main"
      [] selector = "#content" -> node.id = "content"
      [] selector = ".content" -> node.cls = "content"
      [] selector = "#main" -> node.id = "main"
      [] selector = ".main" -> node.cls = "main"

\* soup.select(selector): the matching nodes, in document order.
Select(doc, live, selector) == { n \in live : Matches(doc[n], selector) }

First(S) == CHOOSE n \in S : \A m \in S : n <= m

\* The region the text is taken from: 0 stands for the whole parsed tree.
MainContent(doc, live) ==
    LET hits == { i \in 1 .. Len(Containers) : Select(doc, live, Containers[i]) # {} }
        bodies == { n \in live : doc[n].tag = "body" }
    IN  IF hits # {} THEN First(Select(doc, live, Containers[First(hits)]))
        ELSE IF bodies # {} THEN First(bodies)
        ELSE 0

RECURSIVE Strip(_)
Strip(text) ==
    IF text = << >> THEN << >>
    ELSE IF Head(text) \in Whitespace THEN Strip(Tail(text))
    ELSE IF text[Len(text)] \in Whitespace THEN Strip(SubSeq(text, 1, Len(text) - 1))
    ELSE text

\* The text of the nodes of S, concatenated in document order.
RECURSIVE ConcatText(_, _)
ConcatText(doc, S) ==
    IF S = {} THEN << >>
    ELSE LET n == First(S) IN doc[n].text \o ConcatText(doc, S \ {n})

GetText(doc, live, n) == ConcatText(doc, { m \in live : m = n \/ Under(doc, m, n) })

RECURSIVE Paragraphs(_, _, _)
Paragraphs(doc, live, S) ==
    IF S = {} THEN << >>
    ELSE LET n == First(S)
         IN  Strip(GetText(doc, live, n)) \o << "\n\n" >> \o Paragraphs(doc, live, S \ {n})

\* The try block after the parse: removal, region, text.
ExtractText(soup) ==
    LET live == Decompose(soup)
        main_content == MainContent(soup, live)
        found == { n \in live : soup[n].tag \in TextTags /\ Under(soup, n, main_content) }
    IN  Strip(Paragraphs(soup, live, found))

\* A handler that returns an empty text when the extraction raised.
ExceptHandlerReturnsEmpty(html_content) == << >>

\* except Exception: log the error and return the fixed text.
ExceptHandler(html_content) == Sentinel

\* The body of extract_main_content: the try block and its handler.
TryExtract(html_content) ==
    IF ParserRaises(html_content)
    THEN ExceptHandler(html_content)
    ELSE ExtractText(BeautifulSoup(html_content))

\* What extract_main_content returns for each value scrape_urls can pass it.
ExtractionTable == [ html_content \in Bodies \cup {None} |-> TryExtract(html_content) ]

extract_main_content(html_content) == ExtractionTable[html_content]

(***************************************************************************)
(* Exceptions.  str(e) is the exception's message; the type is not part of *)
(* it.  The total timeout of a request raises asyncio.TimeoutError with no *)
(* arguments, whose message is empty.                                      *)
(***************************************************************************)
Exc(type, msg) == [type |-> type, msg |-> msg]
InvalidURL(url) == Exc("InvalidURL", url)
ClientConnectorError == Exc("ClientConnectorError", "Cannot connect to host")
ClientPayloadError == Exc("ClientPayloadError", "Response payload is not completed")
TimeoutError == Exc("TimeoutError", "")
CancelledError == Exc("CancelledError", "")

ConnectFaults == { ClientConnectorError, TimeoutError }
ReadFaults == { ClientPayloadError, TimeoutError }

Str(e) == e.msg

\* except Exception: CancelledError derives from BaseException and passes through.
\* A handler that catches the client library's errors only.
CaughtClientErrorsOnly(e) == e.type \notin {"CancelledError", "TimeoutError"}

Caught(e) == e.type # "CancelledError"

(***************************************************************************)
(* The connection pool: aiohttp.TCPConnector(limit=max_concurrent).        *)
(* A limit of 0 means no limit.                                            *)
(***************************************************************************)
TCPConnector(limit) == [limit |-> limit, acquired |-> {}, closed |-> FALSE]

\* A pool that admits one connection more than its limit.
AvailableConnectionsOffByOne(conn) ==
    IF conn.limit # 0 THEN conn.limit - Cardinality(conn.acquired) + 1 ELSE 1

AvailableConnections(conn) ==
    IF conn.limit # 0 THEN conn.limit - Cardinality(conn.acquired) ELSE 1

AcquireConn(conn, i) == [conn EXCEPT !.acquired = @ \cup {i}]

\* A pool that never gets a connection back.
ReleaseConnLeaks(conn, i) == conn

ReleaseConn(conn, i) == [conn EXCEPT !.acquired = @ \ {i}]

\* Leaving "async with aiohttp.ClientSession(connector=connector)": the
\* session closes the connector it owns, which drops every connection.
\* A session that does not own its connector and leaves it open.
SessionExitLeavesOpen(conn) == conn

SessionExit(conn) == [conn EXCEPT !.acquired = {}, !.closed = TRUE]

(***************************************************************************)
(* The records fetch_url returns.                                          *)
(***************************************************************************)
HttpErrorMessage(st) ==
    CASE st = 200 -> "HTTP error: 200"
      [] st = 404 -> "HTTP error: 404"

\* A status check that takes only server errors for failures.
IsErrorServerOnly(st) == st >= 500

IsError(st) == st # OK

HttpErrorRecord(url, st) ==
    [url |-> url, success |-> FALSE, status |-> st, error |-> HttpErrorMessage(st), content |-> None]

SuccessRecord(url, st, content) ==
    [url |-> url, success |-> TRUE, status |-> st, content |-> content]

\* A handler that reports a status on a request that raised.
FaultRecordWithStatus(url, e) ==
    [url |-> url, success |-> FALSE, status |-> 0, error |-> Str(e), content |-> None]

FaultRecord(url, e) ==
    [url |-> url, success |-> FALSE, error |-> Str(e), content |-> None]

\* An orchestration step that deletes the body without attaching the text.
ExtractedWithoutText(result) ==
    [ key \in DOMAIN result \ {"content"} |-> result[key] ]

\* An orchestration step that keeps the raw body in the record.
ExtractedKeepsContent(result) ==
    [ key \in DOMAIN result \cup {"extracted_content"} |->
        IF key = "extracted_content" THEN extract_main_content(result.content) ELSE result[key] ]

\* result["extracted_content"] = extract_main_content(result["content"]); del result["content"]
Extracted(result) ==
    [ key \in (DOMAIN result \cup {"extracted_content"}) \ {"content"} |->
        IF key = "extracted_content" THEN extract_main_content(result.content) ELSE result[key] ]

(***************************************************************************)
(* asyncio.gather: the record of the i-th awaitable goes to position i.    *)
(***************************************************************************)
Pending == [pending |-> TRUE]

\* A collection that appends records in the order the tasks complete.
StoreResultInCompletionOrder(res, i, rec) ==
    LET free == { j \in DOMAIN res : res[j] = Pending }
    IN  [res EXCEPT ![CHOOSE j \in free : \A m \in free : j <= m] = rec]

StoreResult(res, i, rec) == [res EXCEPT ![i] = rec]

Tasks == 1 .. Len(urls)

\* The region before the search for the main content has run.
NotSelected == -1

TypeOK ==
    /\ pc \in {"idle", "gathering", "extracting", "returned", "raised"}
    /\ urls \in UrlLists
    /\ max_concurrent \in Caps
    /\ task \in [Tasks -> {"scheduled", "requesting", "reading", "done", "cancelled"}]
    /\ status \in [Tasks -> Statuses \cup {0}]
    /\ k \in 0 .. MaxUrls + 1
    /\ outcome \in [Tasks -> {"none", "ok", "http_error", "fault", "timeout"}]
    /\ bodyRead \subseteq Tasks
    /\ attempts \in [Tasks -> 0 .. 1]
    /\ extractCalls \in [Tasks -> 0 .. 1]
    /\ outOfOrder \in BOOLEAN
    /\ Len(gathered) \in {0, Len(urls)}

\* Before any call there is no batch and no pool.  gathered is a history
\* variable: the records as the gather returned them, before the extraction loop.
InitScraper ==
    /\ pc = "idle"
    /\ urls = << >>
    /\ max_concurrent = 1
    /\ connector = SessionExit(TCPConnector(1))
    /\ task = << >>
    /\ status = << >>
    /\ results = << >>
    /\ k = 0
    /\ outcome = << >>
    /\ bodyRead = {}
    /\ attempts = << >>
    /\ extractCalls = << >>
    /\ outOfOrder = FALSE
    /\ gathered = << >>

Init ==
    /\ InitScraper
    /\ parsed = << >>
    /\ region = NotSelected

(***************************************************************************)
(* scrape_urls(urls, max_concurrent) up to the await of the gather: the    *)
(* connector and the session are created and every fetch_url is scheduled. *)
(* A caller whose call has ended may repeat it with the same arguments.    *)
(***************************************************************************)
Call(us, cap) ==
    /\ \/ pc = "idle"
       \/ pc \in {"returned", "raised"} /\ us = urls /\ cap = max_concurrent
    /\ pc' = "gathering"
    /\ urls' = us
    /\ max_concurrent' = cap
    /\ connector' = TCPConnector(cap)
    /\ task' = [i \in 1 .. Len(us) |-> "scheduled"]
    /\ status' = [i \in 1 .. Len(us) |-> 0]
    /\ results' = [i \in 1 .. Len(us) |-> Pending]
    /\ k' = 0
    /\ outcome' = [i \in 1 .. Len(us) |-> "none"]
    /\ bodyRead' = {}
    /\ attempts' = [i \in 1 .. Len(us) |-> 0]
    /\ extractCalls' = [i \in 1 .. Len(us) |-> 0]
    /\ outOfOrder' = FALSE
    /\ gathered' = << >>
    /\ UNCHANGED extractorVars

\* History: task i ends while a task of an earlier position is still unfinished.
Overtakes(i) == \E j \in Tasks : j < i /\ task[j] # "done"

OutcomeOf(e) == IF e.type = "TimeoutError" THEN "timeout" ELSE "fault"

\* A handler that sends the request again after a first failure.
AfterFaultRetryOnce(n) == IF n < 2 THEN "scheduled" ELSE "done"

\* The handler returns the failure record: the task is over after n attempts.
AfterFault(n) == "done"

\* An exception e raised inside the try block of fetch_url(session, urls[i]).
Raise(i, e) ==
    /\ outcome' = [outcome EXCEPT ![i] = OutcomeOf(e)]
    /\ outOfOrder' = (outOfOrder \/ Overtakes(i))
    /\ IF Caught(e)
       THEN /\ results' = StoreResult(results, i, FaultRecord(urls[i], e))
            /\ task' = [task EXCEPT ![i] = AfterFault(attempts[i])]
            /\ connector' = ReleaseConn(connector, i)
            /\ pc' = pc
       ELSE /\ results' = results
            /\ task' = [task EXCEPT ![i] = "cancelled"]
            /\ connector' = SessionExit(connector)
            /\ pc' = "raised"

\* session.get(url, timeout=30) obtains a connection from the pool and sends the request.
Acquire(i) ==
    /\ pc = "gathering"
    /\ task[i] = "scheduled"
    /\ ~Malformed(urls[i])
    /\ AvailableConnections(connector) > 0
    /\ connector' = AcquireConn(connector, i)
    /\ task' = [task EXCEPT ![i] = "requesting"]
    /\ attempts' = [attempts EXCEPT ![i] = @ + 1]
    /\ UNCHANGED << pc, urls, max_concurrent, status, results, k, outcome, bodyRead, extractCalls, outOfOrder, gathered, parsed, region >>

\* The request fails before it has a connection: the URL is rejected, or the
\* 30 second timeout expires while the request waits for a free connection.
\* attempts counts the session.get calls of the task, which this one ends.
FailQueued(i) ==
    /\ pc = "gathering"
    /\ task[i] = "scheduled"
    /\ Raise(i, IF Malformed(urls[i]) THEN InvalidURL(urls[i]) ELSE TimeoutError)
    /\ attempts' = [attempts EXCEPT ![i] = @ + 1]
    /\ UNCHANGED << urls, max_concurrent, status, k, bodyRead, extractCalls, gathered, parsed, region >>

\* The request fails before the response headers arrive.
FailRequest(i, e) ==
    /\ pc = "gathering"
    /\ task[i] = "requesting"
    /\ Raise(i, e)
    /\ UNCHANGED << urls, max_concurrent, status, k, bodyRead, attempts, extractCalls, gathered, parsed, region >>

\* The response headers arrive with status st.
Respond(i, st) ==
    /\ pc = "gathering"
    /\ task[i] = "requesting"
    /\ status' = [status EXCEPT ![i] = st]
    /\ IF IsError(st)
       THEN /\ results' = StoreResult(results, i, HttpErrorRecord(urls[i], st))
            /\ task' = [task EXCEPT ![i] = "done"]
            /\ connector' = ReleaseConn(connector, i)
            /\ outcome' = [outcome EXCEPT ![i] = "http_error"]
            /\ outOfOrder' = (outOfOrder \/ Overtakes(i))
       ELSE /\ task' = [task EXCEPT ![i] = "reading"]
            /\ UNCHANGED << results, connector, outcome, outOfOrder >>
    /\ UNCHANGED << pc, urls, max_concurrent, k, bodyRead, attempts, extractCalls, gathered, parsed, region >>

\* await response.text() delivers the body.
ReadBody(i, body) ==
    /\ pc = "gathering"
    /\ task[i] = "reading"
    /\ bodyRead' = bodyRead \cup {i}
    /\ results' = StoreResult(results, i, SuccessRecord(urls[i], status[i], body))
    /\ task' = [task EXCEPT ![i] = "done"]
    /\ connector' = ReleaseConn(connector, i)
    /\ outcome' = [outcome EXCEPT ![i] = "ok"]
    /\ outOfOrder' = (outOfOrder \/ Overtakes(i))
    /\ UNCHANGED << pc, urls, max_concurrent, status, k, attempts, extractCalls, gathered, parsed, region >>

\* await response.text() fails while the body is being read.
FailRead(i, e) ==
    /\ pc = "gathering"
    /\ task[i] = "reading"
    /\ bodyRead' = bodyRead \cup {i}
    /\ Raise(i, e)
    /\ UNCHANGED << urls, max_concurrent, status, k, attempts, extractCalls, gathered, parsed, region >>

\* An await that returns as soon as one fetch has completed.
GatherDoneFirstCompleted ==
    /\ pc = "gathering"
    /\ \E i \in Tasks : task[i] = "done"
    /\ pc' = "extracting"
    /\ k' = 1
    /\ gathered' = results
    /\ UNCHANGED << urls, max_concurrent, connector, task, status, results, outcome, bodyRead, attempts, extractCalls, outOfOrder, parsed, region >>

\* Every awaitable of the gather has its record: the await returns the list.
GatherDone ==
    /\ pc = "gathering"
    /\ \A i \in Tasks : task[i] = "done"
    /\ pc' = "extracting"
    /\ k' = 1
    /\ gathered' = results
    /\ UNCHANGED << urls, max_concurrent, connector, task, status, results, outcome, bodyRead, attempts, extractCalls, outOfOrder, parsed, region >>

\* An orchestration step that extracts every record that has a status.
ShouldExtractWithStatus(result) == "status" \in DOMAIN result

\* if result["success"]
ShouldExtract(result) == result.success

\* One iteration of "for result in results".
ExtractStep ==
    /\ pc = "extracting"
    /\ k <= Len(results)
    /\ IF ShouldExtract(results[k])
       THEN /\ results' = [results EXCEPT ![k] = Extracted(@)]
            /\ extractCalls' = [extractCalls EXCEPT ![k] = @ + 1]
       ELSE UNCHANGED << results, extractCalls >>
    /\ k' = k + 1
    /\ UNCHANGED << pc, urls, max_concurrent, connector, task, status, outcome, bodyRead, attempts, outOfOrder, gathered, parsed, region >>

\* return results, through the exit of the session context.
Return ==
    /\ pc = "extracting"
    /\ k > Len(results)
    /\ pc' = "returned"
    /\ connector' = SessionExit(connector)
    /\ UNCHANGED << urls, max_concurrent, task, status, results, k, outcome, bodyRead, attempts, extractCalls, outOfOrder, gathered, parsed, region >>

\* The caller cancels the call while it awaits the gather: CancelledError is
\* raised in every unfinished fetch_url and in scrape_urls.
Cancel ==
    /\ pc = "gathering"
    /\ \E i \in Tasks : task[i] # "done"
    /\ IF Caught(CancelledError)
       THEN /\ results' = [i \in Tasks |-> IF task[i] = "done" THEN results[i] ELSE FaultRecord(urls[i], CancelledError)]
            /\ task' = [i \in Tasks |-> "done"]
            /\ connector' = [connector EXCEPT !.acquired = {}]
            /\ pc' = pc
       ELSE /\ results' = results
            /\ task' = [i \in Tasks |-> IF task[i] = "done" THEN "done" ELSE "cancelled"]
            /\ connector' = SessionExit(connector)
            /\ pc' = "raised"
    /\ UNCHANGED << urls, max_concurrent, status, k, outcome, bodyRead, attempts, extractCalls, outOfOrder, gathered, parsed, region >>

Next ==
    \/ \E us \in UrlLists, cap \in Caps : Call(us, cap)
    \/ \E i \in Tasks : Acquire(i)
    \/ \E i \in Tasks : FailQueued(i)
    \/ \E i \in Tasks, e \in ConnectFaults : FailRequest(i, e)
    \/ \E i \in Tasks, st \in Statuses : Respond(i, st)
    \/ \E i \in Tasks, body \in Bodies : ReadBody(i, body)
    \/ \E i \in Tasks, e \in ReadFaults : FailRead(i, e)
    \/ GatherDone
    \/ ExtractStep
    \/ Return

Spec == Init /\ [][Next]_vars

\* The same program with a caller that may cancel the call.
SpecCancel == Init /\ [][Next \/ Cancel]_vars

(***************************************************************************)
(* Progress.  The batches have a valid cap and more URLs than the cap.     *)
(* The event loop keeps running the call: while a task or scrape_urls      *)
(* itself can take a step, a step is taken, because every await of         *)
(* fetch_url ends within the 30 second timeout and a waiting request is    *)
(* woken when the pool has a free connection.                              *)
(***************************************************************************)
CallOverCap(us, cap) ==
    /\ cap >= 1
    /\ Len(us) > cap
    /\ Len(us) <= MaxFairUrls
    /\ Call(us, cap)

\* A step of the running call: of one of its tasks or of scrape_urls.
RunStep ==
    \/ \E i \in Tasks : Acquire(i)
    \/ \E i \in Tasks : FailQueued(i)
    \/ \E i \in Tasks, e \in ConnectFaults : FailRequest(i, e)
    \/ \E i \in Tasks, st \in Statuses : Respond(i, st)
    \/ \E i \in Tasks, body \in Bodies : ReadBody(i, body)
    \/ \E i \in Tasks, e \in ReadFaults : FailRead(i, e)
    \/ GatherDone
    \/ ExtractStep
    \/ Return

NextFair ==
    \/ \E us \in UrlLists, cap \in Caps : CallOverCap(us, cap)
    \/ \E i \in Tasks : Acquire(i)
    \/ \E i \in Tasks : FailQueued(i)
    \/ \E i \in Tasks, e \in ConnectFaults : FailRequest(i, e)
    \/ \E i \in Tasks, st \in Statuses : Respond(i, st)
    \/ \E i \in Tasks, body \in Bodies : ReadBody(i, body)
    \/ \E i \in Tasks, e \in ReadFaults : FailRead(i, e)
    \/ GatherDone
    \/ ExtractStep
    \/ Return

Fairness == WF_vars(RunStep)

SpecFair == Init /\ [][NextFair]_vars /\ Fairness

(***************************************************************************)
(* extract_main_content on generated documents.  A document has, for each  *)
(* kind of container of a chosen set, one or more nodes of that kind, each *)
(* with a paragraph, in ascending or descending order of the kinds, side   *)
(* by side or nested in one another, with or without html and body around  *)
(* them, and with or without a navigation block that holds a main element. *)
(***************************************************************************)
ContainerNode(kind, parent) ==
    CASE kind = 1 -> Node("main", "", "", "", parent, << >>)
      [] kind = 2 -> Node("article", "", "", "", parent, << >>)
      [] kind = 3 -> Node("div", "", "", "main", parent, << >>)
      [] kind = 4 -> Node("div", "content", "", "", parent, << >>)
      [] kind = 5 -> Node("div", "", "content", "", parent, << >>)
      [] kind = 6 -> Node("section", "main", "", "", parent, << >>)
      [] kind = 7 -> Node("section", "", "main", "", parent, << >>)

Kinds == 1 .. 7

Layouts ==
    [ present : SUBSET Kinds, descending : BOOLEAN, nested : BOOLEAN,
      body : BOOLEAN, nav : BOOLEAN, copies : 1 .. MaxCopies ]

\* The kinds of S, each copies times, in ascending order.
RECURSIVE KindSeq(_, _)
KindSeq(S, copies) ==
    IF S = {} THEN << >>
    ELSE LET kind == First(S)
         IN  [ c \in 1 .. copies |-> kind ] \o KindSeq(S \ {kind}, copies)

Reverse(seq) == [ i \in 1 .. Len(seq) |-> seq[Len(seq) + 1 - i] ]

\* doc followed by one container with its paragraph for each kind of kinds.
RECURSIVE AddContainers(_, _, _, _)
AddContainers(doc, kinds, parent, nested) ==
    IF kinds = << >> THEN doc
    ELSE LET at == Len(doc) + 1
             more == doc \o << ContainerNode(Head(kinds), parent),
                               Node("p", "", "", "", at, << "text" >>) >>
         IN  AddContainers(more, Tail(kinds), IF nested THEN at ELSE parent, nested)

BuildSoup(layout) ==
    LET wrap == IF layout.body
                THEN << Node("html", "", "", "", 0, << >>), Node("body", "", "", "", 1, << >>) >>
                ELSE << >>
        base == Len(wrap)
        menu == IF layout.nav
                THEN << Node("nav", "", "", "", base, << >>),
                        Node("main", "", "", "", base + 1, << >>),
                        Node("li", "", "", "", base + 2, << "menu" >>) >>
                ELSE << >>
        loose == << Node("p", "", "", "", base, << "loose" >>) >>
        kinds == KindSeq(layout.present, layout.copies)
    IN  AddContainers(wrap \o menu \o loose,
                      IF layout.descending THEN Reverse(kinds) ELSE kinds,
                      base, layout.nested)

Soups == { BuildSoup(layout) : layout \in Layouts }

InitExtract ==
    /\ InitScraper
    /\ parsed \in Soups
    /\ region = NotSelected

\* soup(['script', ...]) and element.decompose(), then the search for the
\* main content on what is left, down to the two fallbacks.
SelectRegion ==
    /\ region = NotSelected
    /\ parsed # << >>
    /\ region' = MainContent(parsed, Decompose(parsed))
    /\ UNCHANGED << pc, urls, max_concurrent, connector, task, status, results, k, outcome, bodyRead, attempts, extractCalls, outOfOrder, gathered, parsed >>

NextExtract == SelectRegion

SpecExtract == InitExtract /\ [][NextExtract]_vars

(***************************************************************************)
(* Properties.                                                             *)
(***************************************************************************)
InFlight == { i \in Tasks : task[i] \in {"requesting", "reading"} }
Queued == { i \in Tasks : task[i] = "scheduled" }
Keys(rec) == DOMAIN rec
Outcomes == { outcome[i] : i \in Tasks }

\* C1: the list scrape_urls returns has one record per input URL, and the
\* record at position i carries the URL at position i of the input, in
\* whatever order the fetches completed and with duplicate URLs.
C1_OrderPreserved ==
    pc = "returned" =>
        /\ Len(results) = Len(urls)
        /\ \A i \in 1 .. Len(urls) : results[i] # Pending /\ results[i].url = urls[i]

\* A batch of three URLs, the first and the last the same, has returned
\* after a later task completed before an earlier one.
C1_Witness ==
    /\ pc = "returned"
    /\ Len(urls) = 3
    /\ urls[1] = urls[3]
    /\ urls[1] # urls[2]
    /\ outOfOrder

\* C2: with a cap of at least 1, the number of requests in flight never
\* exceeds the cap, and the connections the pool has handed out are exactly
\* those of the requests in flight; the other tasks exist and wait.
C2_ConcurrencyBound ==
    max_concurrent >= 1 =>
        /\ Cardinality(InFlight) <= max_concurrent
        /\ connector.acquired = InFlight
        /\ pc = "gathering" => DOMAIN task = 1 .. Len(urls)

\* More URLs than the cap: the cap is reached and a request is waiting.
C2_Witness ==
    /\ pc = "gathering"
    /\ max_concurrent >= 1
    /\ Len(urls) > max_concurrent
    /\ Cardinality(InFlight) = max_concurrent
    /\ \E i \in Queued : ~Malformed(urls[i])

\* C3: whatever the per-URL outcomes, scrape_urls does not raise; it returns
\* one record per URL, and each record is decided by the outcome of its own
\* URL alone: a success exactly when its own fetch succeeded, with its own
\* status, whatever happened to the other URLs.
C3_FaultsAreLocal ==
    /\ pc # "raised"
    /\ \A i \in Tasks : task[i] # "cancelled"
    /\ pc = "returned" =>
        /\ Len(results) = Len(urls)
        /\ \A i \in Tasks :
              /\ results[i] # Pending
              /\ results[i].url = urls[i]
              /\ results[i].success = (outcome[i] = "ok")
              /\ outcome[i] = "http_error" => results[i].status = status[i]
              /\ outcome[i] \in {"fault", "timeout"} => "status" \notin Keys(results[i])

\* A returned batch in which a success, a non-OK status, a fault and a timeout
\* were all met, or three of them.
C3_Witness ==
    /\ pc = "returned"
    /\ Len(urls) = 3
    /\ "ok" \in Outcomes
    /\ "timeout" \in Outcomes
    /\ Cardinality(Outcomes) = 3

\* C4: a URL whose response status is not 200 has a failure record carrying
\* that status and a non-empty error, and its body is never read.
C4_NonOKStatus ==
    \A i \in Tasks :
        (status[i] # 0 /\ status[i] # OK) =>
            /\ results[i] # Pending
            /\ results[i].success = FALSE
            /\ results[i].status = status[i]
            /\ results[i].error # ""
            /\ i \notin bodyRead
            /\ task[i] = "done"

\* A returned batch with a 404 response.
C4_Witness ==
    /\ pc = "returned"
    /\ \E i \in Tasks : status[i] = 404 /\ results[i].status = 404 /\ outcome[i] = "http_error"

\* C5: a URL whose request raised a transport fault, before the connection,
\* before the response or while the body was read, has a failure record with
\* an error and no status; a record has a status only when the response was
\* received and nothing was raised afterwards.
C5_TransportFault ==
    \A i \in Tasks :
        /\ outcome[i] \in {"fault", "timeout"} =>
              /\ results[i] # Pending
              /\ results[i].success = FALSE
              /\ "error" \in Keys(results[i])
              /\ "status" \notin Keys(results[i])
        /\ (results[i] # Pending /\ "status" \in Keys(results[i])) =>
              /\ outcome[i] \in {"ok", "http_error"}
              /\ status[i] # 0

\* A returned batch in which a request failed while its body was being read.
C5_Witness ==
    /\ pc = "returned"
    /\ \E i \in bodyRead : outcome[i] = "fault" /\ status[i] = OK

\* An error value identifies a timeout when it is not empty and no failure of
\* another kind produces it.
TimeoutIndicating(err) ==
    /\ err # ""
    /\ err \notin { Str(e) : e \in {ClientConnectorError, ClientPayloadError} }
    /\ err \notin { HttpErrorMessage(st) : st \in Statuses }
    /\ err \notin Urls

\* C6: a URL whose request timed out has a failure record whose error
\* identifies the failure as a timeout.
C6_TimeoutIndicated ==
    \A i \in Tasks :
        outcome[i] = "timeout" =>
            /\ results[i] # Pending
            /\ results[i].success = FALSE
            /\ TimeoutIndicating(results[i].error)

\* C7: every returned record has exactly one of extracted_content and error:
\* extracted_content and no error on a success, error and no
\* extracted_content on a failure.
C7_MutuallyExclusive ==
    pc = "returned" =>
        \A i \in 1 .. Len(results) :
            IF results[i].success
            THEN "extracted_content" \in Keys(results[i]) /\ "error" \notin Keys(results[i])
            ELSE "error" \in Keys(results[i]) /\ "extracted_content" \notin Keys(results[i])

\* A returned batch with a success and a failure.
C7_Witness ==
    /\ pc = "returned"
    /\ \E i, j \in 1 .. Len(results) : results[i].success /\ ~results[j].success

AllowedKeys == {"url", "success", "status", "error", "extracted_content"}

\* C8 as claimed: the keys of every returned record are url, success and a
\* subset of status, error, extracted_content.
C8_Original ==
    pc = "returned" =>
        \A i \in 1 .. Len(results) :
            /\ {"url", "success"} \subseteq Keys(results[i])
            /\ Keys(results[i]) \subseteq AllowedKeys

\* C8 amended: no returned record retains a raw body.  A success record has
\* no content key; a failure record keeps the content key fetch_url gave it,
\* with the value None.  The keys of every returned record are url, success
\* and a subset of status, error, extracted_content, content.
C8_NoRawBody ==
    pc = "returned" =>
        \A i \in 1 .. Len(results) :
            /\ {"url", "success"} \subseteq Keys(results[i])
            /\ Keys(results[i]) \subseteq AllowedKeys \cup {"content"}
            /\ results[i].success => "content" \notin Keys(results[i])
            /\ ~results[i].success => "content" \in Keys(results[i]) /\ results[i].content = None

\* A returned batch with a success whose body was read and a failure by status.
C8_Witness ==
    /\ pc = "returned"
    /\ \E i \in bodyRead : results[i].success
    /\ \E j \in Tasks : outcome[j] = "http_error" /\ results[j].content = None

\* C9: a call with a cap below 1 raises; it does not run the batch.
C9_InvalidCapRaises ==
    (pc # "idle" /\ max_concurrent < 1) => pc = "raised"

\* C10: when the call has returned or raised, the pool is closed and holds no
\* connection; a call starts with a pool of its own that is open and empty.
C10_PoolReleased ==
    /\ pc \in {"returned", "raised"} => connector.closed /\ connector.acquired = {}
    /\ pc \in {"gathering", "extracting"} => ~connector.closed
    /\ (pc = "gathering" /\ Queued = Tasks) => connector.acquired = {}

\* The call was cancelled while one request held a connection, another had
\* ended, and it raised.
C10_Witness ==
    /\ pc = "raised"
    /\ \E i \in Tasks : task[i] = "cancelled" /\ attempts[i] = 1
    /\ \E j \in Tasks : task[j] = "done"

\* C11: when the extraction of a fetched body raises, the record is still a
\* success and its extracted_content is the text "Error extracting content";
\* the call does not raise, and the other records are what they are without
\* it: a failure is the record fetch_url produced, a success whose body
\* parses has the text of its own body.
C11_ExtractionFaultRecovered ==
    /\ pc # "raised"
    /\ \A i \in 1 .. Len(gathered) :
          (pc = "returned" \/ i < k) =>
              IF gathered[i].success
              THEN /\ results[i].success
                   /\ results[i].url = gathered[i].url
                   /\ results[i].status = gathered[i].status
                   /\ IF ParserRaises(gathered[i].content)
                      THEN results[i].extracted_content = << "Error extracting content" >>
                      ELSE results[i].extracted_content = ExtractText(BeautifulSoup(gathered[i].content))
              ELSE results[i] = gathered[i]

\* A returned batch with a body the parser rejected, a body that parsed and a
\* failed fetch.
C11_Witness ==
    /\ pc = "returned"
    /\ \E i \in Tasks : gathered[i].success /\ gathered[i].content = HtmlRejected
    /\ \E j \in Tasks : gathered[j].success /\ gathered[j].content = HtmlArticle
    /\ \E l \in Tasks : ~gathered[l].success

\* C12: every position of the input makes exactly one GET attempt: never a
\* second one, one as soon as the task has left the queue, and one for every
\* position when the gather is over, the positions that repeat a URL and the
\* positions that failed included; there are as many records as positions.
C12_OneAttemptPerOccurrence ==
    /\ \A i \in Tasks :
          /\ attempts[i] <= 1
          /\ task[i] \in {"requesting", "reading", "done"} => attempts[i] = 1
    /\ pc \in {"extracting", "returned"} =>
          /\ Len(results) = Len(urls)
          /\ \A i \in Tasks : attempts[i] = 1

\* A returned batch that names the same URL twice: the first request failed
\* and was not sent again, the second was sent and succeeded.
C12_Witness ==
    /\ pc = "returned"
    /\ Len(urls) >= 2
    /\ urls[1] = urls[2]
    /\ ~Malformed(urls[1])
    /\ outcome[1] = "fault"
    /\ outcome[2] = "ok"
    /\ attempts[1] = 1
    /\ attempts[2] = 1

\* C15: the loop calls the extractor exactly once for each record that the
\* gather returned with success=true and never for one with success=false,
\* and a failed record is returned exactly as fetch_url produced it.
C15_ExtractorCalledOnSuccessOnly ==
    /\ \A i \in Tasks : extractCalls[i] <= 1
    /\ pc = "returned" =>
          \A i \in Tasks :
              /\ extractCalls[i] = (IF gathered[i].success THEN 1 ELSE 0)
              /\ ~gathered[i].success => results[i] = gathered[i]

\* A returned batch with an extracted success, a failure by status and a
\* failure by fault, neither of them extracted.
C15_Witness ==
    /\ pc = "returned"
    /\ \E i \in Tasks : extractCalls[i] = 1 /\ gathered[i].success
    /\ \E j \in Tasks : extractCalls[j] = 0 /\ outcome[j] = "http_error" /\ results[j] = gathered[j]
    /\ \E l \in Tasks : extractCalls[l] = 0 /\ outcome[l] = "fault" /\ results[l] = gathered[l]

\* C16: no extraction happens while the gather is awaited; when the loop
\* runs, every fetch task has produced its record and no request is in
\* flight; the loop extracts the records one at a time in input order: the
\* extracted ones are exactly the successes before position k.
C16_ExtractionAfterBarrier ==
    /\ pc = "gathering" =>
          \A i \in Tasks :
              /\ extractCalls[i] = 0
              /\ results[i] # Pending => "extracted_content" \notin Keys(results[i])
    /\ pc = "extracting" =>
          /\ InFlight = {}
          /\ connector.acquired = {}
          /\ \A i \in Tasks :
                /\ task[i] = "done"
                /\ results[i] # Pending
                /\ outcome[i] # "none"
                /\ extractCalls[i] = 1 => i < k
                /\ (i < k /\ results[i].success) =>
                      extractCalls[i] = 1 /\ "extracted_content" \in Keys(results[i])
                /\ (i >= k /\ results[i].success) =>
                      "content" \in Keys(results[i]) /\ "extracted_content" \notin Keys(results[i])

\* The loop is between two extractions: the first record is extracted, the
\* second still has its body, and all three fetches have ended.
C16_Witness ==
    /\ pc = "extracting"
    /\ Len(urls) = 3
    /\ k = 2
    /\ extractCalls[1] = 1
    /\ results[2].success
    /\ "content" \in Keys(results[2])
    /\ outOfOrder

ClaimedPriority == << "main", "article", "[role=\"main\"]", "#content", ".content", "#main", ".main" >>

\* The nodes the search can see, those left after the removal of the
\* non-content elements, that match the i-th selector of the claimed order.
Matching(live, i) == { n \in live : Matches(parsed[n], ClaimedPriority[i]) }

\* C13: the region is the first node in document order of the selector that
\* comes first in main, article, [role="main"], #content, .content, #main,
\* .main among those that match a node of the tree the search runs on; if none
\* matches it is the first body, and without a body the whole tree (0).
C13_RegionByPriority ==
    region # NotSelected =>
        LET live == Decompose(parsed)
            PresentSelectors == { i \in 1 .. Len(ClaimedPriority) : Matching(live, i) # {} }
            BodyNodes == { n \in live : parsed[n].tag = "body" }
        IN  IF PresentSelectors # {}
            THEN \E i \in PresentSelectors :
                    /\ \A j \in PresentSelectors : i <= j
                    /\ region \in Matching(live, i)
                    /\ \A n \in Matching(live, i) : region <= n
            ELSE IF BodyNodes # {}
            THEN region \in BodyNodes /\ \A n \in BodyNodes : region <= n
            ELSE region = 0

\* The region was selected in a document where an article comes before two
\* main elements: it is the first of the two, not the article.
C13_Witness ==
    /\ region # NotSelected
    /\ region # 0
    /\ parsed[region].tag = "main"
    /\ \E n \in Decompose(parsed) : n < region /\ parsed[n].tag = "article"
    /\ \E m \in Decompose(parsed) : m > region /\ parsed[m].tag = "main"

\* Request i waits for a connection while fewer than the cap are in flight.
WaitsWithFreeSlot(i) ==
    /\ pc = "gathering"
    /\ task[i] = "scheduled"
    /\ ~Malformed(urls[i])
    /\ Cardinality(InFlight) < max_concurrent

SomeWaitsWithFreeSlot == \E i \in Tasks : WaitsWithFreeSlot(i)

\* C14: with a valid cap and more URLs than the cap, a request that waits
\* while fewer than the cap are in flight can start at once and does not stay
\* waiting; every URL of a running batch eventually has its outcome; and the
\* call eventually returns.
C14_Progress ==
    /\ [](\A i \in Tasks : WaitsWithFreeSlot(i) => ENABLED Acquire(i))
    /\ SomeWaitsWithFreeSlot ~> ~SomeWaitsWithFreeSlot
    /\ (pc = "gathering") ~> (pc = "returned" /\ \A i \in Tasks : outcome[i] # "none")

\* A batch over its cap has returned after a request had to wait for the
\* connection of an earlier one: with a cap of 1 and every request answered,
\* the requests held the one connection in turn.
C14_Witness ==
    /\ pc = "returned"
    /\ max_concurrent = 1
    /\ Len(urls) > max_concurrent
    /\ \A i \in Tasks : outcome[i] \in {"ok", "http_error"}

====
